---- MODULE Spec2Model ----
(***************************************************************************)
(* IndiaDisasterFeed (relief_script.js): the time-boxed cache, the         *)
(* ReliefWeb -> GDACS -> EONET -> sample-data fallback chain, the          *)
(* per-provider normalizers and the ranking applied by render().           *)
(*                                                                         *)
(* One JavaScript task (a click, a timer, a network completion) together   *)
(* with the promise continuations it triggers is one action: the code has  *)
(* a single thread and continuations of an already settled promise run     *)
(* before the next task.                                                   *)
(***************************************************************************)
EXTENDS Integers, Sequences, FiniteSets, TLC

\* ---------------------------------------------------------------- bounds
MaxRenders == 2     \* render() invocations explored in one behaviour
MaxTicks   == 4     \* clock advances explored in one behaviour

\* ------------------------------------------------------------- constants
Day       == 24 * 60 * 60 * 1000
duration  == 5 * 60 * 1000                 \* this.cache.duration
intervalMinutes == 10                      \* enableAutoRefresh(10)
intervalMs == intervalMinutes * 60 * 1000
TickMs    == duration \div 2               \* granularity of the clock
StartTime == 10 * Day                      \* Date.now() at page load (> 0)

NoInv  == 0         \* no invocation
NoTime == 0         \* null in this.cache.timestamp (falsy, like 0)
Null   == <<>>      \* null in this.cache.data
Array(l) == <<l>>   \* an array in this.cache.data (truthy even when empty)

Inv == 1 .. MaxRenders      \* render() invocations, numbered as they start

\* ------------------------------------------------------------ JS values
\* A Date object: valid with a time value, or Invalid Date (NaN).
ValidDate(ms) == [valid |-> TRUE, ms |-> ms]
InvalidDate   == [valid |-> FALSE, ms |-> 0]

\* A raw date field of a payload: an ISO string, another string, or absent.
Iso(ms)   == [kind |-> "iso", ms |-> ms]
JunkDate  == [kind |-> "junk", ms |-> 0]
Undefined == [kind |-> "undefined", ms |-> 0]

\* new Date(v)
NewDate(v) == IF v.kind = "iso" THEN ValidDate(v.ms) ELSE InvalidDate

\* a || b on raw date fields: undefined is falsy, any string is truthy
OrElse(a, b) == IF a.kind # "undefined" THEN a ELSE b

\* A JS number that may be NaN (also the result of arithmetic on undefined).
Num(n) == [nan |-> FALSE, v |-> n]
NaN    == [nan |-> TRUE, v |-> 0]
Minus(x, y) == IF x.nan \/ y.nan THEN NaN ELSE Num(x.v - y.v)

\* Strings that the code inspects are sequences of characters.
Upper == <<"A","B","C","D","E","F","G","H","I","J","K","L","M",
           "N","O","P","Q","R","S","T","U","V","W","X","Y","Z">>
Lower == <<"a","b","c","d","e","f","g","h","i","j","k","l","m",
           "n","o","p","q","r","s","t","u","v","w","x","y","z">>

ToLowerChar(c) ==
    IF \E k \in 1..26 : Upper[k] = c
    THEN Lower[CHOOSE k \in 1..26 : Upper[k] = c]
    ELSE c

\* String.prototype.toLowerCase
toLowerCase(s) == [k \in 1..Len(s) |-> ToLowerChar(s[k])]

\* w occurs in s as a substring
Contains(s, w) ==
    \E k \in 0 .. (Len(s) - Len(w)) :
        \A j \in 1..Len(w) : s[k + j] = w[j]

\* s.match(/w1|w2|.../i): case-insensitive search for any alternative
Match(s, words) == \E w \in words : Contains(toLowerCase(s), w)

HighKeywords ==
    { <<"u","r","g","e","n","t">>,
      <<"e","m","e","r","g","e","n","c","y">>,
      <<"c","r","i","t","i","c","a","l">>,
      <<"s","e","v","e","r","e">>,
      <<"m","a","j","o","r">>,
      <<"c","a","t","a","s","t","r","o","p","h","i","c">>,
      <<"d","e","a","d","l","y">> }

HighTypes ==
    { <<"e","a","r","t","h","q","u","a","k","e">>,
      <<"c","y","c","l","o","n","e">>,
      <<"f","l","o","o","d">>,
      <<"t","s","u","n","a","m","i">> }

MediumTypes ==
    { <<"s","t","o","r","m">>,
      <<"l","a","n","d","s","l","i","d","e">>,
      <<"w","i","l","d","f","i","r","e">> }

GeneralAlert == <<"G","e","n","e","r","a","l"," ","A","l","e","r","t">>

\* ---------------------------------------------------- ReliefWeb normalizer
\* fields.disaster_type?.[0]?.name, then fields.theme?.[0]?.name, then the
\* default; an absent name and an empty one are both falsy.
extractDisasterType(fields) ==
    IF fields.disaster_type # <<>> THEN fields.disaster_type
    ELSE IF fields.theme # <<>> THEN fields.theme
    ELSE GeneralAlert

calculateSeverity(fields) ==
    LET content == toLowerCase(fields.title) \o <<" ">> \o toLowerCase(fields.body)
        disasterType == toLowerCase(extractDisasterType(fields))
    IN  IF Match(content, HighKeywords) THEN "high"
        ELSE IF Match(disasterType, HighTypes) THEN "high"
        ELSE IF Match(disasterType, MediumTypes) THEN "medium"
        ELSE "low"

\* item.fields is read without a guard: an item without fields throws
parseReliefWebThrows(data) == \E k \in 1..Len(data) : ~data[k].hasFields

parseReliefWebData(data) ==
    [k \in 1..Len(data) |->
        [id       |-> data[k].id,
         date     |-> NewDate(OrElse(data[k].fields.created, data[k].fields.original)),
         severity |-> calculateSeverity(data[k].fields),
         source   |-> "ReliefWeb"]]

\* -------------------------------------------------------- GDACS normalizer
\* Property names every object literal inherits from Object.prototype.
ObjectPrototypeKeys ==
    {"constructor", "toString", "toLocaleString", "valueOf", "hasOwnProperty",
     "isPrototypeOf", "propertyIsEnumerable", "__proto__"}

\* The value of an inherited member: a function or object, always truthy.
Inherited == "[object]"

\* mapping[level] || 'low' on an object literal with keys Red, Orange, Green
mapGDACSAlertLevel(level) ==
    IF level = "Red" THEN "high"
    ELSE IF level = "Orange" THEN "medium"
    ELSE IF level = "Green" THEN "low"
    ELSE IF level \in ObjectPrototypeKeys THEN Inherited
    ELSE "low"


\* feature.properties is read without a guard
gdacsMapThrows(features) == \E k \in 1..Len(features) : ~features[k].hasProperties

gdacsMap(features) ==
    [k \in 1..Len(features) |->
        [id       |-> features[k].eventid,
         date     |-> NewDate(features[k].fromdate),
         severity |-> mapGDACSAlertLevel(features[k].alertlevel),
         source   |-> "GDACS"]]

\* -------------------------------------------------------- EONET normalizer
\* India bounding box: lat 8-35, lon 68-97; coordinates are <<lon, lat>>
inIndia(event) ==
    IF event.geometry = <<>> THEN FALSE
    ELSE LET coords == event.geometry[1].coordinates
         IN  coords[2] >= 8 /\ coords[2] <= 35 /\ coords[1] >= 68 /\ coords[1] <= 97

\* Array.prototype.filter
RECURSIVE filter(_, _)
filter(seq, k) ==
    IF k > Len(seq) THEN <<>>
    ELSE IF inIndia(seq[k]) THEN <<seq[k]>> \o filter(seq, k + 1)
    ELSE filter(seq, k + 1)

\* event.categories[0].title is read without a guard
eonetMapThrows(events) == \E k \in 1..Len(events) : ~events[k].hasCategories

eonetMap(events) ==
    [k \in 1..Len(events) |->
        [id       |-> events[k].id,
         date     |-> NewDate(events[k].geometry[1].date),
         severity |-> "medium",
         source   |-> "NASA EONET"]]

\* ------------------------------------------------------------- sample data
getSampleData(t) ==
    << [id |-> "sample-1", date |-> ValidDate(t - 2 * Day), severity |-> "high",
        source |-> "Sample Data"],
       [id |-> "sample-2", date |-> ValidDate(t - 5 * Day), severity |-> "medium",
        source |-> "Sample Data"],
       [id |-> "sample-3", date |-> ValidDate(t - 1 * Day), severity |-> "medium",
        source |-> "Sample Data"],
       [id |-> "sample-4", date |-> ValidDate(t - 3 * Day), severity |-> "high",
        source |-> "Sample Data"] >>

\* ------------------------------------------------- adapters, after the await
\* What an async call settles to: threw = the promise rejects; otherwise it
\* resolves to list, or to undefined when defined is FALSE.
Threw           == [threw |-> TRUE, defined |-> FALSE, list |-> <<>>]
Return(l)       == [threw |-> FALSE, defined |-> TRUE, list |-> l]
ReturnUndefined == [threw |-> FALSE, defined |-> FALSE, list |-> <<>>]

\* fetch() rejected, !response.ok, response.json() rejected, or a property
\* of a null body is read
requestFails(resp) ==
    ~resp.net \/ ~resp.ok \/ ~resp.parsable \/ ~resp.json.isObject

\* the try block of fetchFromReliefWeb; threw = control enters its catch
reliefWebTry(resp) ==
    IF requestFails(resp) THEN Threw
    ELSE IF Len(resp.json.data) > 0
         THEN IF parseReliefWebThrows(resp.json.data) THEN Threw
              ELSE Return(parseReliefWebData(resp.json.data))
         ELSE Return(<<>>)

fetchFromGDACS(resp) ==
    IF requestFails(resp) THEN Threw
    ELSE IF Len(resp.json.features) = 0 THEN Return(<<>>)
    ELSE IF gdacsMapThrows(resp.json.features) THEN Threw
    ELSE Return(gdacsMap(resp.json.features))

fetchFromEONET(resp) ==
    IF requestFails(resp) THEN Threw
    ELSE IF Len(resp.json.events) = 0 THEN Return(<<>>)
    ELSE LET indiaEvents == filter(resp.json.events, 1)
         IN  IF eonetMapThrows(indiaEvents) THEN Threw
             ELSE Return(eonetMap(indiaEvents))

\* a try block of fetchFromAlternativeSources returns from the function
\* only with a non-empty list; a throw is caught and logged
returnsFrom(out) == ~out.threw /\ out.defined /\ Len(out.list) > 0

\* variant: the sample data is built but not returned
sampleFallback_noReturn(t) == ReturnUndefined

\* the end of fetchFromAlternativeSources, reached when EONET gave nothing
sampleFallback(t) == Return(getSampleData(t))

\* the try/catch of fetchDisasterData around the settled fetchFromReliefWeb()
fetchDisasterDataReturn(out) == IF out.threw THEN Return(<<>>) ELSE out

\* --------------------------------------------------------------- ranking
\* severityOrder[s]: undefined (NaN in arithmetic) for any other value
severityOrder(s) ==
    IF s = "high" THEN Num(0)
    ELSE IF s = "medium" THEN Num(1)
    ELSE IF s = "low" THEN Num(2)
    ELSE NaN

DateValue(d) == IF d.valid THEN Num(d.ms) ELSE NaN

\* the comparator passed to sort() in render()
comparator(a, b) ==
    IF severityOrder(a.severity) # severityOrder(b.severity)
    THEN Minus(severityOrder(a.severity), severityOrder(b.severity))
    ELSE Minus(DateValue(b.date), DateValue(a.date))

\* SortCompare of Array.prototype.sort: a NaN from the comparator counts as 0
SortCompare(a, b) == IF comparator(a, b).nan THEN 0 ELSE comparator(a, b).v

\* Array.prototype.sort on a short array: stable insertion sort.  With a
\* consistent comparator the result of a stable sort is unique; when the
\* comparator returns NaN for some pairs the order is implementation-defined
\* and this is the one insertion produces (engines insert on short arrays).
RECURSIVE insert(_, _, _)
insert(sorted, x, j) ==
    IF j >= 1 /\ SortCompare(sorted[j], x) > 0
    THEN insert(sorted, x, j - 1)
    ELSE SubSeq(sorted, 1, j) \o <<x>> \o SubSeq(sorted, j + 1, Len(sorted))

\* (the next prefix is bound through a one-element set, so that it is
\* evaluated once and not once per use)
RECURSIVE sortFrom(_, _, _)
sortFrom(list, k, sorted) ==
    IF k > Len(list) THEN sorted
    ELSE CHOOSE result \in
            { sortFrom(list, k + 1, next) :
                next \in {insert(sorted, list[k], Len(sorted))} } : TRUE

sort(list) == sortFrom(list, 1, <<>>)


\* ------------------------------------------------ what the network can send
T1 == StartTime - 6 * Day
T2 == StartTime - 4 * Day
T3 == StartTime - 2 * Day

Response(net, ok, parsable, json) ==
    [net |-> net, ok |-> ok, parsable |-> parsable, json |-> json]

rwItem(id, title, disasterType, theme, created, original) ==
    [id |-> id, hasFields |-> TRUE,
     fields |-> [title |-> title, body |-> <<>>, disaster_type |-> disasterType,
                 theme |-> theme, created |-> created, original |-> original]]

rwNoFields ==
    [id |-> "rw-0", hasFields |-> FALSE,
     fields |-> [title |-> <<>>, body |-> <<>>, disaster_type |-> <<>>,
                 theme |-> <<>>, created |-> Undefined, original |-> Undefined]]

rwReports ==
    << rwItem("rw-1", <<"W","e","e","k","l","y"," ","n","o","t","e">>, <<>>,
              <<"H","e","a","l","t","h">>, Undefined, Iso(T2)),
       rwItem("rw-2", <<"U","R","G","E","N","T"," ","a","i","d">>,
              <<"E","p","i","d","e","m","i","c">>, <<>>, Iso(T1), Iso(T3)),
       rwItem("rw-3", <<"W","e","e","k","l","y"," ","n","o","t","e">>,
              <<"F","l","o","o","d">>, <<>>, Iso(T3), Undefined) >>

rwStorm ==
    << rwItem("rw-4", <<"W","e","e","k","l","y"," ","n","o","t","e">>,
              <<"S","e","v","e","r","e"," ","L","o","c","a","l"," ","S","t","o","r","m">>,
              <<>>, JunkDate, Iso(T2)) >>

rwJson(data) == [isObject |-> TRUE, data |-> data]

ReliefWebResponses ==
    { Response(FALSE, FALSE, FALSE, rwJson(<<>>)),        \* fetch rejects
      Response(TRUE, FALSE, FALSE, rwJson(<<>>)),         \* status 500
      Response(TRUE, TRUE, FALSE, rwJson(<<>>)),          \* body is not JSON
      Response(TRUE, TRUE, TRUE, [isObject |-> FALSE, data |-> <<>>]),  \* null
      Response(TRUE, TRUE, TRUE, rwJson(<<rwNoFields>>)), \* item without fields
      Response(TRUE, TRUE, TRUE, rwJson(<<>>)),           \* no reports
      Response(TRUE, TRUE, TRUE, rwJson(rwReports)),
      Response(TRUE, TRUE, TRUE, rwJson(rwStorm)) }

feature(id, alertlevel, fromdate) ==
    [eventid |-> id, hasProperties |-> TRUE, alertlevel |-> alertlevel,
     fromdate |-> fromdate]

gdacsJson(features) == [isObject |-> TRUE, features |-> features]

GDACSResponses ==
    { Response(FALSE, FALSE, FALSE, gdacsJson(<<>>)),
      Response(TRUE, FALSE, FALSE, gdacsJson(<<>>)),
      Response(TRUE, TRUE, FALSE, gdacsJson(<<>>)),
      Response(TRUE, TRUE, TRUE,
               gdacsJson(<<[eventid |-> "g-0", hasProperties |-> FALSE,
                            alertlevel |-> "", fromdate |-> Undefined]>>)),
      Response(TRUE, TRUE, TRUE, gdacsJson(<<>>)),
      Response(TRUE, TRUE, TRUE,
               gdacsJson(<<feature("g-1", "Orange", Iso(T1)),
                           feature("g-2", "Purple", Iso(T3)),
                           feature("g-3", "Red", Iso(T2))>>)),
      Response(TRUE, TRUE, TRUE,
               gdacsJson(<<feature("g-4", "Red", Iso(T1)),
                           feature("g-5", "Red", Undefined),
                           feature("g-6", "Red", Iso(T3))>>)),
      Response(TRUE, TRUE, TRUE,
               gdacsJson(<<feature("g-7", "constructor", Iso(T2))>>)) }

eonetEvent(id, geometry, hasCategories) ==
    [id |-> id, geometry |-> geometry, hasCategories |-> hasCategories]

point(lon, lat, date) == [coordinates |-> <<lon, lat>>, date |-> date]

eonetJson(events) == [isObject |-> TRUE, events |-> events]

EONETResponses ==
    { Response(FALSE, FALSE, FALSE, eonetJson(<<>>)),
      Response(TRUE, FALSE, FALSE, eonetJson(<<>>)),
      Response(TRUE, TRUE, FALSE, eonetJson(<<>>)),
      Response(TRUE, TRUE, TRUE, eonetJson(<<>>)),
      Response(TRUE, TRUE, TRUE,
               eonetJson(<<eonetEvent("e-1", <<point(100, 20, Iso(T1))>>, TRUE),
                           eonetEvent("e-2", <<>>, TRUE)>>)),
      Response(TRUE, TRUE, TRUE,
               eonetJson(<<eonetEvent("e-3", <<point(80, 20, Iso(T2))>>, FALSE)>>)),
      Response(TRUE, TRUE, TRUE,
               eonetJson(<<eonetEvent("e-4", <<point(100, 20, Iso(T3))>>, TRUE),
                           eonetEvent("e-5", <<point(80, 20, Iso(T2))>>, TRUE),
                           eonetEvent("e-6", <<point(68, 35, Iso(T1))>>, TRUE)>>)) }

\* what each adapter can settle to, over all the responses above
reliefWebOutcomes == {reliefWebTry(resp) : resp \in ReliefWebResponses}
gdacsOutcomes     == {fetchFromGDACS(resp) : resp \in GDACSResponses}
eonetOutcomes     == {fetchFromEONET(resp) : resp \in EONETResponses}

\* ------------------------------------------------------------------ state
VARIABLES
    now,        \* Date.now()
    cache,      \* this.cache: data (Null or Array(list)) and timestamp
    pc,         \* pc[i]: where invocation i of render() is suspended
    log,        \* log[i]: the adapter calls made so far by pending invocation i
    stale,      \* stale[i]: clearCache() ran while invocation i was pending
    last,       \* the most recent return of fetchDisasterData() to render()
    cachedBy,   \* the invocation that stored cache.data (NoInv when null)
    newest,     \* the most recently started invocation that missed the cache
    afterClear, \* the handler that ran last called clearCache()
    loaded,     \* DOMContentLoaded has fired
    refreshButton, \* render() has appended a Refresh button to the page
    timerDue    \* when the setInterval callback is next due (NoTime: no timer)

vars == <<now, cache, pc, log, stale, last, cachedBy, newest, afterClear, loaded,
          refreshButton, timerDue>>

Init ==
    /\ now = StartTime
    /\ cache = [data |-> Null, timestamp |-> NoTime]
    /\ pc = [i \in Inv |-> "init"]
    /\ log = [i \in Inv |-> <<>>]
    /\ stale = [i \in Inv |-> FALSE]
    /\ last = [id |-> NoInv, hit |-> FALSE, stale |-> FALSE, log |-> <<>>,
               result |-> ReturnUndefined, ranked |-> <<>>]
    /\ cachedBy = NoInv
    /\ newest = NoInv
    /\ afterClear = FALSE
    /\ loaded = FALSE
    /\ refreshButton = FALSE
    /\ timerDue = NoTime

Pending(i) == pc[i] \in {"rw", "gdacs", "eonet"}

\* invocations are numbered in the order they start
Fresh(i) == pc[i] = "init" /\ \A j \in Inv : j < i => pc[j] # "init"

\* variant: an entry exactly duration old still counts as valid
isCacheValid_inclusive(c, t) ==
    IF c.data = Null \/ c.timestamp = NoTime THEN FALSE
    ELSE (t - c.timestamp) <= duration

isCacheValid(c, t) ==
    IF c.data = Null \/ c.timestamp = NoTime THEN FALSE
    ELSE (t - c.timestamp) < duration

\* variant: only the timestamp is reset
clearCache_timestampOnly(c) == [c EXCEPT !.timestamp = NoTime]

clearCache(c) == [c EXCEPT !.data = Null, !.timestamp = NoTime]

Call(src) == [src |-> src, res |-> "pending"]

\* the last call of the log settles with res
Settle(l, res) == [l EXCEPT ![Len(l)].res = res]

Kind(out) ==
    IF out.threw THEN "error"
    ELSE IF out.defined /\ Len(out.list) > 0 THEN "nonempty" ELSE "empty"

\* the instants the clock of the model takes
Clock == {StartTime + k * TickMs : k \in 0..MaxTicks}

\* the lists fetchDisasterData can resolve to
fetched ==
    {out.list : out \in reliefWebOutcomes \cup gdacsOutcomes \cup eonetOutcomes}
        \cup {getSampleData(t) : t \in Clock}

\* the sort of render(), tabulated over the lists that can reach it: a
\* fetched list, or a cached one that an earlier render() has sorted already
sorted == [list \in fetched \cup {sort(l) : l \in fetched} |-> sort(list)]

\* render() after its await: nothing or an empty list shows the empty
\* state, any other list is sorted in place
rendered(list) == IF Len(list) = 0 THEN list ELSE sorted[list]

\* render() up to its first suspension, with c the cache at the call:
\* fetchDisasterData returns the cached array, which render() then sorts in
\* place, or it starts the ReliefWeb request
render(i, c) ==
    IF isCacheValid(c, now)
    THEN /\ \E ranked \in {rendered(c.data[1])} :
              /\ last' = [id |-> i, hit |-> TRUE, stale |-> FALSE, log |-> <<>>,
                          result |-> Return(c.data[1]), ranked |-> ranked]
              /\ cache' = [c EXCEPT !.data = Array(ranked)]
              /\ refreshButton' = (refreshButton \/ Len(ranked) > 0)
         /\ pc' = [pc EXCEPT ![i] = "done"]
         /\ log' = log
         /\ newest' = newest
    ELSE /\ pc' = [pc EXCEPT ![i] = "rw"]
         /\ log' = [log EXCEPT ![i] = <<Call("ReliefWeb")>>]
         /\ cache' = c
         /\ last' = last
         /\ refreshButton' = refreshButton
         /\ newest' = i

\* variant: a fetch overtaken by clearCache() does not store its result
settle_unlessStale(i, out, l) ==
    /\ pc' = [pc EXCEPT ![i] = "done"]
    /\ log' = [log EXCEPT ![i] = <<>>]
    /\ stale' = [stale EXCEPT ![i] = FALSE]
    /\ cachedBy' = IF out.threw \/ stale[i] THEN cachedBy ELSE i
    /\ \E ranked \in {rendered(fetchDisasterDataReturn(out).list)} :
         /\ cache' = IF out.threw \/ stale[i] THEN cache
                     ELSE [data |-> IF out.defined THEN Array(ranked) ELSE Null,
                           timestamp |-> now]
         /\ last' = [id |-> i, hit |-> FALSE, stale |-> stale[i], log |-> l,
                     result |-> fetchDisasterDataReturn(out), ranked |-> ranked]
         /\ refreshButton' = (refreshButton \/ Len(ranked) > 0)

\* fetchFromReliefWeb() settled with out: fetchDisasterData stores and
\* returns what it resolved to, and render() ranks it in place
settle(i, out, l) ==
    /\ pc' = [pc EXCEPT ![i] = "done"]
    /\ log' = [log EXCEPT ![i] = <<>>]
    /\ stale' = [stale EXCEPT ![i] = FALSE]
    /\ cachedBy' = IF out.threw THEN cachedBy ELSE i
    /\ \E ranked \in {rendered(fetchDisasterDataReturn(out).list)} :
         /\ cache' = IF out.threw THEN cache
                     ELSE [data |-> IF out.defined THEN Array(ranked) ELSE Null,
                           timestamp |-> now]
         /\ last' = [id |-> i, hit |-> FALSE, stale |-> stale[i], log |-> l,
                     result |-> fetchDisasterDataReturn(out), ranked |-> ranked]
         /\ refreshButton' = (refreshButton \/ Len(ranked) > 0)

\* --------------------------------------------------------------- actions
DOMContentLoaded ==
    /\ ~loaded
    /\ loaded' = TRUE
    /\ render(1, cache)
    /\ timerDue' = now + intervalMs
    /\ afterClear' = FALSE
    /\ UNCHANGED <<now, stale, cachedBy>>

\* render() called on its own (the Retry button, another script)
Render(i) ==
    /\ loaded
    /\ Fresh(i)
    /\ render(i, cache)
    /\ afterClear' = FALSE
    /\ UNCHANGED <<now, stale, cachedBy, loaded, timerDue>>

ClearCache ==
    /\ loaded
    /\ cache' = clearCache(cache)
    /\ cachedBy' = NoInv
    /\ stale' = [i \in Inv |-> stale[i] \/ Pending(i)]
    /\ afterClear' = TRUE
    /\ UNCHANGED <<now, pc, log, last, newest, loaded, refreshButton, timerDue>>

\* clearCache(); render() in one handler
refresh(i) ==
    /\ Fresh(i)
    /\ render(i, clearCache(cache))
    /\ cachedBy' = NoInv
    /\ stale' = [j \in Inv |-> stale[j] \/ Pending(j)]
    /\ afterClear' = TRUE

\* a Refresh button, appended by every render() of a non-empty list and
\* never removed
ManualRefresh(i) ==
    /\ refreshButton
    /\ refresh(i)
    /\ UNCHANGED <<now, loaded, timerDue>>

\* the setInterval callback of enableAutoRefresh
AutoRefresh(i) ==
    /\ timerDue # NoTime
    /\ now >= timerDue
    /\ refresh(i)
    /\ timerDue' = timerDue + intervalMs
    /\ UNCHANGED <<now, loaded>>

ReliefWebResponse(i, out) ==
    /\ pc[i] = "rw"
    /\ IF out.threw
       THEN /\ pc' = [pc EXCEPT ![i] = "gdacs"]
            /\ log' = [log EXCEPT ![i] = Append(Settle(@, "error"), Call("GDACS"))]
            /\ UNCHANGED <<cache, cachedBy, last, stale, refreshButton>>
       ELSE settle(i, out, Settle(log[i], Kind(out)))
    /\ afterClear' = FALSE
    /\ UNCHANGED <<now, newest, loaded, timerDue>>

\* variant: EONET is requested whatever GDACS returned
GDACSResponse_noShortCircuit(i, out) ==
    /\ pc[i] = "gdacs"
    /\ pc' = [pc EXCEPT ![i] = "eonet"]
    /\ log' = [log EXCEPT ![i] = Append(Settle(@, Kind(out)), Call("EONET"))]
    /\ UNCHANGED <<cache, cachedBy, last, stale, refreshButton>>
    /\ afterClear' = FALSE
    /\ UNCHANGED <<now, newest, loaded, timerDue>>

\* variant: a failed GDACS request is retried once before EONET is tried
GDACSResponse_retry(i, out) ==
    /\ pc[i] = "gdacs"
    /\ IF returnsFrom(out)
       THEN settle(i, out, Settle(log[i], Kind(out)))
       ELSE IF out.threw /\ Len(log[i]) = 2
       THEN /\ log' = [log EXCEPT ![i] = Append(Settle(@, Kind(out)), Call("GDACS"))]
            /\ UNCHANGED <<pc, cache, cachedBy, last, stale, refreshButton>>
       ELSE /\ pc' = [pc EXCEPT ![i] = "eonet"]
            /\ log' = [log EXCEPT ![i] = Append(Settle(@, Kind(out)), Call("EONET"))]
            /\ UNCHANGED <<cache, cachedBy, last, stale, refreshButton>>
    /\ afterClear' = FALSE
    /\ UNCHANGED <<now, newest, loaded, timerDue>>

GDACSResponse(i, out) ==
    /\ pc[i] = "gdacs"
    /\ IF returnsFrom(out)
       THEN settle(i, out, Settle(log[i], Kind(out)))
       ELSE /\ pc' = [pc EXCEPT ![i] = "eonet"]
            /\ log' = [log EXCEPT ![i] = Append(Settle(@, Kind(out)), Call("EONET"))]
            /\ UNCHANGED <<cache, cachedBy, last, stale, refreshButton>>
    /\ afterClear' = FALSE
    /\ UNCHANGED <<now, newest, loaded, timerDue>>

EONETResponse(i, out) ==
    /\ pc[i] = "eonet"
    /\ IF returnsFrom(out)
       THEN settle(i, out, Settle(log[i], Kind(out)))
       ELSE \E sample \in {sampleFallback(now)} :
                settle(i, sample, Settle(log[i], Kind(out)))
    /\ afterClear' = FALSE
    /\ UNCHANGED <<now, newest, loaded, timerDue>>

Tick ==
    /\ loaded
    /\ now < StartTime + MaxTicks * TickMs
    /\ now' = now + TickMs
    /\ UNCHANGED <<cache, pc, log, stale, last, cachedBy, newest, afterClear, loaded,
                   refreshButton, timerDue>>

Next ==
    \/ DOMContentLoaded
    \/ \E i \in Inv : Render(i)
    \/ ClearCache
    \/ \E i \in Inv : ManualRefresh(i)
    \/ \E i \in Inv : AutoRefresh(i)
    \/ \E i \in Inv : \E out \in reliefWebOutcomes : ReliefWebResponse(i, out)
    \/ \E i \in Inv : \E out \in gdacsOutcomes : GDACSResponse(i, out)
    \/ \E i \in Inv : \E out \in eonetOutcomes : EONETResponse(i, out)
    \/ Tick

Spec == Init /\ [][Next]_vars

TypeOK ==
    /\ cachedBy \in Inv \cup {NoInv}
    /\ \A i \in Inv : pc[i] \in {"init", "rw", "gdacs", "eonet", "done"}

\* a request completes or fails: the network's answer to some pending request
Respond ==
    \E i \in Inv :
        \/ \E out \in reliefWebOutcomes : ReliefWebResponse(i, out)
        \/ \E out \in gdacsOutcomes : GDACSResponse(i, out)
        \/ \E out \in eonetOutcomes : EONETResponse(i, out)

\* while requests are pending, one of them is eventually answered
FairSpec == Spec /\ WF_vars(Respond)

\* ---------------------------------------------------------------- claims
Order == <<"ReliefWeb", "GDACS", "EONET">>
SourceName == <<"ReliefWeb", "GDACS", "NASA EONET">>
Severities == {"high", "medium", "low"}
\* the logs of the pending invocations and of the last completed one
Logs == {log[i] : i \in Inv} \cup {last.log}

InOrder(l) == Len(l) <= 3 /\ \A k \in 1..Len(l) : l[k].src = Order[k]

Missed == last.id # NoInv /\ ~last.hit

Starts(i) == pc[i] = "init" /\ pc'[i] # "init"

Completes(i) == Pending(i) /\ pc'[i] = "done"

StartsRequest(i) == pc'[i] = "rw" /\ log'[i] = <<Call("ReliefWeb")>>

\* C1: on a cache miss, when ReliefWeb fails or succeeds with an empty
\* result, GDACS and then EONET are tried (EONET only after GDACS failed or
\* was empty), and the list returned is the first non-empty result in the
\* order ReliefWeb, GDACS, EONET.
C1_FallbackOnFailureOrEmpty ==
    /\ \A l \in Logs :
        /\ InOrder(l)
        /\ (Len(l) >= 1 /\ l[1].res \in {"error", "empty"}) => Len(l) >= 2
        /\ Len(l) >= 3 => l[2].res \in {"error", "empty"}
    /\ Missed =>
        \A k \in 1..Len(last.log) :
            last.log[k].res = "nonempty" =>
                /\ \A j \in 1..(k - 1) : last.log[j].res # "nonempty"
                /\ Len(last.result.list) > 0
                /\ \A e \in 1..Len(last.result.list) :
                      last.result.list[e].source = SourceName[k]

\* C2: when each of the three adapters throws or returns an empty list, the
\* list returned by fetchDisasterData on a cache miss is exactly the 4-item
\* sample dataset.
C2_AllFailGivesSample ==
    (Missed /\ \A k \in 1..Len(last.log) : last.log[k].res \in {"error", "empty"})
        => \E t \in Clock : last.result = Return(getSampleData(t))

\* C3: within one invocation the adapters run one after another in the order
\* ReliefWeb, GDACS, EONET: a request starts only when every earlier one has
\* completed, and none starts after a source returned a non-empty list.
C3_SequentialShortCircuit ==
    \A l \in Logs :
        /\ InOrder(l)
        /\ \A k \in 1..(Len(l) - 1) : l[k].res \in {"error", "empty"}

C3_Witness ==
    /\ Missed
    /\ Len(last.log) = 2
    /\ last.log[2].res = "nonempty"
    /\ \E i \in Inv : Pending(i)

\* C4: whatever the adapters' outcomes, fetchDisasterData returns a list: its
\* promise is never rejected and never resolves to null or undefined.
C4_AlwaysReturnsList ==
    last.id # NoInv => ~last.result.threw /\ last.result.defined

C4_Witness ==
    /\ Missed
    /\ Len(last.log) = 3
    /\ \A k \in 1..3 : last.log[k].res = "error"
    /\ Len(last.result.list) = 4

\* C5: a fetchDisasterData call made while an entry exists and
\* now - timestamp < 5 minutes returns the stored list and calls no adapter;
\* a call made in any other state is a miss that starts the ReliefWeb request.
C5_CacheHitIffValid ==
    [][\A i \in Inv :
        (Starts(i) /\ ~afterClear') =>
            IF /\ cache.data # Null
               /\ cache.timestamp # NoTime
               /\ now - cache.timestamp < 5 * 60 * 1000
            THEN /\ pc'[i] = "done"
                 /\ last'.id = i
                 /\ last'.result = Return(cache.data[1])
                 /\ log' = log
            ELSE StartsRequest(i)]_vars

C5_Witness ==
    /\ last.id # NoInv
    /\ last.hit
    /\ cache.timestamp # NoTime
    /\ cache.timestamp < now
    /\ Len(last.result.list) > 0

\* C6: clearCache() leaves data and timestamp both null whatever the state,
\* and a fetchDisasterData call made right after it is a miss that starts the
\* ReliefWeb request.
C6_ClearThenMiss ==
    [][/\ afterClear' => (cache'.data = Null /\ cache'.timestamp = NoTime)
       /\ \A i \in Inv :
            (Starts(i) /\ (afterClear \/ afterClear')) => StartsRequest(i)]_vars

C6_Witness ==
    /\ afterClear
    /\ Missed
    /\ Len(last.result.list) > 0
    /\ \E i \in Inv : pc[i] = "rw" /\ i > last.id

\* l is a rearrangement of m
IsPermutation(l, m) ==
    /\ Len(l) = Len(m)
    /\ \E f \in [1..Len(l) -> 1..Len(l)] :
        /\ \A a, b \in 1..Len(l) : f[a] = f[b] => a = b
        /\ \A a \in 1..Len(l) : l[a] = m[f[a]]

SeverityRank(s) == IF s = "high" THEN 0 ELSE IF s = "medium" THEN 1 ELSE 2

\* C7: the list render() displays is the returned list reordered so that
\* every high comes before every medium before every low and, within one
\* severity, newer events come before older ones.
C7_RankedBySeverityThenDate ==
    (last.id # NoInv /\ Len(last.result.list) > 0) =>
        /\ IsPermutation(last.ranked, last.result.list)
        /\ \A a, b \in 1..Len(last.ranked) :
            (a < b /\ last.ranked[a].severity \in Severities
                   /\ last.ranked[b].severity \in Severities) =>
                /\ SeverityRank(last.ranked[a].severity)
                      <= SeverityRank(last.ranked[b].severity)
                /\ (/\ last.ranked[a].severity = last.ranked[b].severity
                    /\ last.ranked[a].date.valid
                    /\ last.ranked[b].date.valid)
                      => last.ranked[a].date.ms >= last.ranked[b].date.ms

\* C8: every event of every returned list has severity high, medium or low.
C8_SeverityInEnum ==
    last.id # NoInv =>
        \A k \in 1..Len(last.result.list) :
            last.result.list[k].severity \in Severities

\* C9 as stated: a fetch that was pending when clearCache() ran never stores
\* its result, and once nothing is pending the cache holds the result of the
\* most recently started fetch.
C9_OnlyFetchesAfterClearWrite ==
    /\ (Missed /\ last.stale /\ last.id < newest) => cachedBy # last.id
    /\ ((\A i \in Inv : ~Pending(i)) /\ cachedBy # NoInv) => cachedBy = newest

\* C9 amended: every cache-miss fetch stores its result when it completes,
\* also one that was pending when clearCache() ran, so the cache, unless
\* cleared since, holds the result of the fetch that completed last.
C9_LastCompletedWrites ==
    (Missed /\ cache.data # Null) =>
        cachedBy = last.id /\ cache.data = Array(last.ranked)

C9_Witness ==
    /\ Missed
    /\ last.stale
    /\ cachedBy = last.id
    /\ last.id < newest
    /\ \A i \in Inv : ~Pending(i)

\* C10: a cache-miss invocation sends at most one request to each source
\* and, when every request is answered, returns a list that it has stored in
\* the cache together with the current time.  (A pending invocation only
\* moves on towards "done", so "eventually returns" is: it is not pending
\* for ever.)
C10_OneRequestEachAndTerminates ==
    /\ [](\A l \in Logs : \A a, b \in 1..Len(l) : l[a].src = l[b].src => a = b)
    /\ \A i \in Inv : []<>(~Pending(i))
    /\ [][\A i \in Inv :
            Completes(i) =>
                /\ last'.id = i
                /\ ~last'.result.threw /\ last'.result.defined
                /\ cache'.data = Array(last'.ranked)
                /\ cache'.timestamp = now]_vars

C10_Witness ==
    /\ Missed
    /\ Len(last.log) = 3
    /\ cache.data = Array(last.ranked)
    /\ cache.timestamp = now
    /\ cachedBy = last.id

====
